---- MODULE Spec2Model ----
(***************************************************************************)
(* OpenStack cost dashboard: the TTL cache (cache.rs), the fetch pipeline   *)
(* (data.rs), the startup fetch (main.rs), the periodic refresh (server.rs) *)
(* and the HTTP handlers (handlers.rs) that share one ChartData snapshot.   *)
(*                                                                          *)
(* Conventions                                                              *)
(*  - a String is a sequence of atoms (substrings); String::new() is <<>>;   *)
(*  - Option<T> is a sequence of length <= 1: None is <<>>, Some(x) is <<x>>;*)
(*  - HashMap<String, f64> is a function from a set of service names;       *)
(*  - Instant / Duration are whole seconds; the clock moves by TickStep.    *)
(***************************************************************************)
EXTENDS Integers, Sequences, FiniteSets, TLC

VARIABLES
    now,          \* the monotonic clock (Instant::now()), seconds since start
    today,        \* the calendar day Local::now() falls on
    config,       \* Config, loaded once by main
    cache,        \* OpenStackCache.cache : key -> CacheEntry
    chart_data,   \* AppState.chart_data, the shared snapshot cell
    snap_lock,    \* the RwLock around chart_data: [writer, readers]
    serving,      \* main has built AppState and started the server
    next_tick,    \* deadline of the background task's interval
    pc,           \* position of every task
    key,          \* fetch_data's cache_key, per task
    data,         \* the HashMap fetch_data returned, per task
    outcome,      \* how the task's fetch_data call ended
    invoked,      \* tasks whose current fetch_data call launched the process
    new_chart,    \* the ChartData process_data returned, per task
    clone,        \* the copy a reader is taking of chart_data
    last_written, \* history: the ChartData of the last completed replacement
    last_good,    \* history: Some(ChartData) of the last refresh that did not fail
    op,           \* cache API driver: the last call [name, key, value, ttl, old, ret]
    written,      \* cache API driver: key -> Some([data, at, ttl]) of the last set
    arg,          \* function driver: the call [fn, ...] and its arguments
    res           \* function driver: Some(value returned) once the call has run

vars == << now, today, config, cache, chart_data, snap_lock, serving, next_tick,
           pc, key, data, outcome, invoked, new_chart, clone, last_written,
           last_good, op, written, arg, res >>

(***************************************************************************)
(* Bounds of the model                                                      *)
(***************************************************************************)
\* how many times the clock advances
MaxTicks == 1
\* longest argument string, in characters, handed to generate_key
MaxStrLen == 2
\* longest parameter list handed to generate_key
MaxParams == 2
\* longest argument list handed to redact_sensitive_args
MaxArgs == 3
\* most records in one wrapper of a document handed to process_resources
MaxRecords == 2

None == << >>
Some(x) == << x >>

S(a) == << a >>

(***************************************************************************)
(* Program constants                                                        *)
(***************************************************************************)
\* main.rs:41  OpenStackCache::new(Duration::from_secs(300))
DefaultTtl == 300
\* config.rs:118 CACHE_TTL_SECONDS default
CacheTtlSeconds == 1800
\* config.rs:60 REFRESH_INTERVAL_SECONDS default
RefreshInterval == 300

\* the clock is observed every TickStep seconds
TickStep == DefaultTtl

Times == { n * TickStep : n \in 0..MaxTicks }

(***************************************************************************)
(* config.rs: Config                                                        *)
(***************************************************************************)
Configs ==
    { [ openstack_command   |-> S("openstack"),
        os_auth_url         |-> S("https://keystone"),
        os_username         |-> S("alice"),
        os_password         |-> S("hunter2"),
        os_project_id       |-> S("p-42"),
        os_region_name      |-> S("rc3-a"),
        os_user_domain_name |-> S("Default"),
        currency_rate       |-> 2,
        refresh_interval    |-> RefreshInterval,
        cache_ttl_seconds   |-> CacheTtlSeconds ] }

Days == { [ year |-> 2024, month |-> 3, day |-> 15 ] }

(***************************************************************************)
(* chrono formatting and parsing, on the numbers the model uses             *)
(***************************************************************************)
Pad4 == (2024 :> "2024")
Pad2 == (1 :> "01" @@ 2 :> "02" @@ 3 :> "03" @@ 10 :> "10" @@ 15 :> "15")
\* scan::number accepts one or two digits for %m and %d
NumOf == ("01" :> 1 @@ "1" :> 1 @@ "02" :> 2 @@ "2" :> 2 @@ "03" :> 3 @@ "3" :> 3
          @@ "10" :> 10 @@ "15" :> 15)
YearOf == ("2024" :> 2024)

Midnight == "T00:00:00+00:00"

\* Local::now().format("%Y-%m-%d")
FormatYmd(d) == << Pad4[d.year], "-", Pad2[d.month], "-", Pad2[d.day] >>

\* Local::now().format("%Y-%m-01")
FormatYm01(d) == << Pad4[d.year], "-", Pad2[d.month], "-", "01" >>

\* NaiveDate::parse_from_str(s, "%Y-%m-%d"): Some(date) or None; days up to
\* the 28th exist in every month
ParseYmd(s) ==
    IF /\ Len(s) = 5
       /\ s[1] \in DOMAIN YearOf
       /\ s[2] = "-"
       /\ s[3] \in DOMAIN NumOf
       /\ s[4] = "-"
       /\ s[5] \in DOMAIN NumOf
       /\ NumOf[s[3]] \in 1..12
       /\ NumOf[s[5]] \in 1..28
    THEN Some([ year |-> YearOf[s[1]], month |-> NumOf[s[3]], day |-> NumOf[s[5]] ])
    ELSE None

\* get_date_string whose absent date is the current date
get_date_string_none_today(date, day) ==
    IF date = None THEN FormatYmd(day) \o << Midnight >>
    ELSE IF ParseYmd(date[1]) # None
         THEN FormatYmd(ParseYmd(date[1])[1]) \o << Midnight >>
         ELSE FormatYm01(day) \o << Midnight >>

\* get_date_string that falls back to the current date, as its warning says
get_date_string_today(date, day) ==
    IF date # None /\ ParseYmd(date[1]) # None
    THEN FormatYmd(ParseYmd(date[1])[1]) \o << Midnight >>
    ELSE FormatYmd(day) \o << Midnight >>

\* DataService::get_date_string, with Local::now() falling on day
get_date_string(date, day) ==
    IF date # None
    THEN LET parsed == ParseYmd(date[1])
         IN  IF parsed # None
             THEN FormatYmd(parsed[1]) \o << Midnight >>
             ELSE FormatYm01(day) \o << Midnight >>
    ELSE FormatYm01(day) \o << Midnight >>

(***************************************************************************)
(* data.rs: the argument list fetch_data builds                             *)
(***************************************************************************)
Flag(name, value) == IF value # << >> THEN << S(name), value >> ELSE << >>

BuildArgs(cfg, begin_at, end_at, day) ==
    LET begin_at_date_string == get_date_string(begin_at, day)
        end_at_date_string ==
            get_date_string(IF end_at # None THEN end_at ELSE Some(FormatYmd(day)), day)
    IN  Flag("--os-auth-url", cfg.os_auth_url)
        \o Flag("--os-username", cfg.os_username)
        \o Flag("--os-password", cfg.os_password)
        \o Flag("--os-project-id", cfg.os_project_id)
        \o Flag("--os-region-name", cfg.os_region_name)
        \o Flag("--os-user-domain-name", cfg.os_user_domain_name)
        \o << S("rating"), S("dataframes"), S("get"),
              S("-b"), begin_at_date_string,
              S("-e"), end_at_date_string,
              S("-c"), S("Resources"), S("-f"), S("json") >>

(***************************************************************************)
(* cache.rs.  Every method takes the cache RwLock, runs code that never     *)
(* suspends, and drops the guard on return, so each call is one step on the *)
(* table c at clock reading t.                                              *)
(***************************************************************************)
RECURSIVE Flatten(_)
Flatten(ss) == IF ss = << >> THEN << >> ELSE Head(ss) \o Flatten(Tail(ss))

\* The hasher is fed the command and then each parameter, with nothing in
\* between; SHA-256 and the hex formatting are taken as injective on that
\* byte stream, so the key is the stream.
generate_key(command, params) == command \o Flatten(params)

\* CacheEntry::new
CacheEntry(d, ttl, t) == [ data |-> d, created_at |-> t, ttl |-> ttl ]

\* is_valid with the comparison turned round
is_valid_inverted(entry, t) == t - entry.created_at > entry.ttl

\* CacheEntry::is_valid
is_valid(entry, t) == t - entry.created_at < entry.ttl

\* CacheEntry::remaining_ttl (saturating_sub)
remaining_ttl(entry, t) ==
    IF entry.ttl >= t - entry.created_at THEN entry.ttl - (t - entry.created_at) ELSE 0

\* get that serves an entry when it has expired, and misses when it is valid
get_inverted(c, k, t) ==
    [ ret   |-> IF k \in DOMAIN c /\ ~is_valid(c[k], t) THEN Some(c[k].data) ELSE None,
      cache |-> c ]

\* get that never finds an entry
get_miss(c, k, t) == [ ret |-> None, cache |-> c ]

\* get that evicts the expired entry it finds
get_evict(c, k, t) ==
    [ ret   |-> IF k \in DOMAIN c /\ is_valid(c[k], t) THEN Some(c[k].data) ELSE None,
      cache |-> IF k \in DOMAIN c /\ ~is_valid(c[k], t)
                THEN [ x \in DOMAIN c \ {k} |-> c[x] ] ELSE c ]

\* OpenStackCache::get: [ret, cache] = the Option returned and the table after
get(c, k, t) ==
    [ ret   |-> IF k \in DOMAIN c /\ is_valid(c[k], t) THEN Some(c[k].data) ELSE None,
      cache |-> c ]

\* insert that keeps the entry already stored (entry().or_insert())
InsertIfAbsent(c, k, entry) ==
    [ x \in DOMAIN c \cup {k} |-> IF x \in DOMAIN c THEN c[x] ELSE entry ]

\* HashMap::insert
Insert(c, k, entry) == [ x \in DOMAIN c \cup {k} |-> IF x = k THEN entry ELSE c[x] ]

\* OpenStackCache::set_with_ttl
set_with_ttl(c, k, d, ttl, t) == Insert(c, k, CacheEntry(d, ttl, t))

\* OpenStackCache::set
set(c, k, d, t) == Insert(c, k, CacheEntry(d, DefaultTtl, t))

\* cleanup_expired that keeps an entry until its age exceeds the TTL
cleanup_expired_late(c, t) ==
    [ x \in { y \in DOMAIN c : t - c[y].created_at <= c[y].ttl } |-> c[x] ]

\* OpenStackCache::cleanup_expired
cleanup_expired(c, t) ==
    [ x \in { y \in DOMAIN c : is_valid(c[y], t) } |-> c[x] ]

\* OpenStackCache::clear
clear(c) == << >>

\* OpenStackCache::stats
stats(c, t) ==
    [ total_entries   |-> Cardinality(DOMAIN c),
      valid_entries   |-> Cardinality({ x \in DOMAIN c : is_valid(c[x], t) }),
      expired_entries |-> Cardinality({ x \in DOMAIN c : ~is_valid(c[x], t) }),
      default_ttl     |-> DefaultTtl ]

(***************************************************************************)
(* models.rs and data.rs: resources, summaries and the chart snapshot       *)
(***************************************************************************)
EmptyMap == << >>

\* str::parse::<f64> on the rating strings the external process can print
ParseF64 == ("2" :> 2 @@ "4" :> 4 @@ "6" :> 6)

Resource(rating, service) == [ rating |-> rating, service |-> service ]

\* What a successful run of the external process can print, decoded as
\* Vec<ResourceWrapper>: each wrapper is its Resources list.
Documents ==
    { << >>,
      << << Resource(S("4"), S("compute")), Resource(S("2"), S("compute")) >>,
         << Resource(S("n/a"), S("storage")), Resource(S("2"), S("storage")) >> >> }

\* an insert of the cost in place of the addition
AddCostOverwrite(m, service, cost) ==
    [ x \in DOMAIN m \cup {service} |-> IF x = service THEN cost ELSE m[x] ]

\* *data_map.entry(service).or_insert(0.0) += cost
AddCost(m, service, cost) ==
    [ x \in DOMAIN m \cup {service} |->
        IF x = service THEN (IF x \in DOMAIN m THEN m[x] ELSE 0) + cost ELSE m[x] ]

\* the inner loop of process_resources over one wrapper's records; the f64
\* division is exact on the ratings of Documents (multiples of the rate)
RECURSIVE ProcessRecords(_, _, _)
ProcessRecords(m, records, currency_rate) ==
    IF records = << >> THEN m
    ELSE LET resource == Head(records)
             next == IF resource.rating \in { S(x) : x \in DOMAIN ParseF64 }
                     THEN AddCost(m, resource.service,
                                  ParseF64[resource.rating[1]] \div currency_rate)
                     ELSE m
         IN  ProcessRecords(next, Tail(records), currency_rate)

RECURSIVE ProcessWrappers(_, _, _)
ProcessWrappers(m, resources, currency_rate) ==
    IF resources = << >> THEN m
    ELSE ProcessWrappers(ProcessRecords(m, Head(resources), currency_rate),
                         Tail(resources), currency_rate)

\* DataService::process_resources
process_resources(resources, currency_rate) ==
    ProcessWrappers(EmptyMap, resources, currency_rate)

\* ChartData::empty()
EmptyChart ==
    [ labels |-> << >>, values |-> << >>, total_cost |-> 0, service_count |-> 0,
      average_cost |-> 0, last_updated |-> << >> ]

\* The orders in which HashMap::iter can yield the entries of data
IterOrders(d) ==
    { o \in [ 1..Cardinality(DOMAIN d) -> DOMAIN d ] :
        \A i, j \in 1..Cardinality(DOMAIN d) : i # j => o[i] # o[j] }

\* the sort step with the comparison turned round: ascending cost
InsertAsc(sorted, x) ==
    LET n == Cardinality({ i \in 1..Len(sorted) : sorted[i][2] <= x[2] })
    IN  SubSeq(sorted, 1, n) \o << x >> \o SubSeq(sorted, n + 1, Len(sorted))

\* One step of the stable sort by descending cost: x goes after every pair
\* whose cost is not smaller
InsertDesc(sorted, x) ==
    LET n == Cardinality({ i \in 1..Len(sorted) : sorted[i][2] >= x[2] })
    IN  SubSeq(sorted, 1, n) \o << x >> \o SubSeq(sorted, n + 1, Len(sorted))

RECURSIVE SortDesc(_)
SortDesc(pairs) ==
    IF pairs = << >> THEN << >>
    ELSE InsertDesc(SortDesc(SubSeq(pairs, 1, Len(pairs) - 1)), pairs[Len(pairs)])

RECURSIVE Sum(_)
Sum(values) == IF values = << >> THEN 0 ELSE Head(values) + Sum(Tail(values))

\* process_data without the service_count > 0 test: 0.0 / 0.0 is NaN,
\* written here as a value no quotient of costs takes
process_data_unguarded(d, order, t) ==
    LET sorted_data == SortDesc([ i \in 1..Len(order) |-> << order[i], d[order[i]] >> ])
        values == [ i \in 1..Len(sorted_data) |-> sorted_data[i][2] ]
    IN  [ labels        |-> [ i \in 1..Len(sorted_data) |-> sorted_data[i][1] ],
          values        |-> values,
          total_cost    |-> Sum(values),
          service_count |-> Len(values),
          average_cost  |-> IF Len(values) > 0 THEN Sum(values) \div Len(values) ELSE 0 - 1,
          last_updated  |-> << t >> ]

\* DataService::process_data, for one iteration order of the map; t is the
\* clock reading that last_updated is stamped with.  Costs are whole numbers
\* here, so total_cost / service_count is the integer quotient.
process_data(d, order, t) ==
    LET sorted_data == SortDesc([ i \in 1..Len(order) |-> << order[i], d[order[i]] >> ])
        labels == [ i \in 1..Len(sorted_data) |-> sorted_data[i][1] ]
        values == [ i \in 1..Len(sorted_data) |-> sorted_data[i][2] ]
        total_cost == Sum(values)
        service_count == Len(labels)
    IN  [ labels        |-> labels,
          values        |-> values,
          total_cost    |-> total_cost,
          service_count |-> service_count,
          average_cost  |-> IF service_count > 0 THEN total_cost \div service_count ELSE 0,
          last_updated  |-> << t >> ]

(***************************************************************************)
(* The RwLock<ChartData> cell.  An assignment to the cell, and a clone of   *)
(* it, move the struct in two parts; the lock is what makes them one.       *)
(***************************************************************************)
Unlocked == [ writer |-> None, readers |-> {} ]

\* a read that does not wait for the writer
CanReadAlways(lock) == TRUE

\* RwLock::read is granted
CanRead(lock) == lock.writer = None

\* a write that does not wait for the other writer
CanWriteAlways(lock) == lock.readers = {}

\* RwLock::write is granted
CanWrite(lock) == lock.writer = None /\ lock.readers = {}

AssignFirst(cell, new) == [ cell EXCEPT !.labels = new.labels ]

AssignRest(cell, new) ==
    [ cell EXCEPT !.values = new.values, !.total_cost = new.total_cost,
                  !.service_count = new.service_count,
                  !.average_cost = new.average_cost,
                  !.last_updated = new.last_updated ]

(***************************************************************************)
(* Tasks                                                                    *)
(***************************************************************************)
MainTask == "main"
BgTask == "bg"
ManualTasks == { "m1", "m2" }
Readers == { "r1" }
Fetchers == { MainTask, BgTask } \cup ManualTasks
Tasks == Fetchers \cup Readers

\* The begin_at / end_at query parameters a client sends to /api/refresh
BeginInputs == { None, Some(<< "2024", "-", "03", "-", "01" >>), Some(<< "yesterday" >>) }
EndInputs == { None, Some(<< "2024", "-", "03", "-", "10" >>) }

Failures == { "launch_failed", "exit_nonzero", "malformed" }

\* the program after construction
InitProgram ==
    /\ now = 0
    /\ today \in Days
    /\ config \in Configs
    /\ cache = << >>
    /\ chart_data = EmptyChart
    /\ snap_lock = Unlocked
    /\ serving = FALSE
    /\ next_tick = 0
    /\ pc = [ t \in Tasks |-> IF t = MainTask THEN "start"
                              ELSE IF t = BgTask THEN "off" ELSE "idle" ]
    /\ key = [ t \in Fetchers |-> << >> ]
    /\ data = [ t \in Fetchers |-> EmptyMap ]
    /\ outcome = [ t \in Fetchers |-> "none" ]
    /\ invoked = {}
    /\ new_chart = [ t \in Fetchers |-> EmptyChart ]
    /\ clone = [ r \in Readers |-> EmptyChart ]
    /\ last_written = EmptyChart
    /\ last_good = None
    /\ op = [ name |-> "none", key |-> << >>, value |-> None, ttl |-> None,
              old |-> None, ret |-> None ]
    /\ written = << >>

\* no function call is being driven
NoCall == [ fn |-> "none" ]

Init ==
    /\ InitProgram
    /\ arg = NoCall
    /\ res = None

(***************************************************************************)
(* data.rs: DataService::fetch_data, as run by task t                       *)
(***************************************************************************)
\* The caller's continuation once fetch_data has returned d: process_data
\* runs before the task's next suspension point (the snapshot lock).
Returned(t, d) ==
    /\ data' = [ data EXCEPT ![t] = d ]
    /\ \E order \in IterOrders(d) :
          new_chart' = [ new_chart EXCEPT ![t] = process_data(d, order, now) ]
    /\ pc' = [ pc EXCEPT ![t] = "write" ]

\* fetch_data up to the launch of the external process: the arguments, the
\* cache key, the cache read, and on a miss Command::output()
fetch_data(t, begin_at, end_at) ==
    LET args == BuildArgs(config, begin_at, end_at, today)
        cache_key == generate_key(config.openstack_command, args)
        got == get(cache, cache_key, now)
    IN  /\ key' = [ key EXCEPT ![t] = cache_key ]
        /\ cache' = got.cache
        /\ IF got.ret # None
           THEN /\ outcome' = [ outcome EXCEPT ![t] = "hit" ]
                /\ invoked' = invoked \ {t}
                /\ Returned(t, got.ret[1])
           ELSE /\ outcome' = [ outcome EXCEPT ![t] = "running" ]
                /\ invoked' = invoked \cup {t}
                /\ pc' = [ pc EXCEPT ![t] = "exec" ]
                /\ UNCHANGED << data, new_chart >>

\* the launch error handed to the caller, which gives the refresh up
ProcLaunchFailedAborts(t) ==
    /\ pc[t] = "exec"
    /\ outcome' = [ outcome EXCEPT ![t] = "launch_failed" ]
    /\ pc' = [ pc EXCEPT ![t] = "idle" ]
    /\ UNCHANGED << now, today, config, cache, chart_data, snap_lock, serving,
                    next_tick, key, data, invoked, new_chart, clone, last_written,
                    last_good, op, written, arg, res >>

\* Err(e): the process could not be launched
ProcLaunchFailed(t) ==
    /\ pc[t] = "exec"
    /\ outcome' = [ outcome EXCEPT ![t] = "launch_failed" ]
    /\ Returned(t, EmptyMap)
    /\ UNCHANGED << now, today, config, cache, chart_data, snap_lock, serving,
                    next_tick, key, invoked, clone, last_written, last_good,
                    op, written, arg, res >>

\* the non-zero exit arm storing its empty map in the cache
ProcExitNonZeroCached(t) ==
    /\ pc[t] = "exec"
    /\ outcome' = [ outcome EXCEPT ![t] = "exit_nonzero" ]
    /\ cache' = set(cache, key[t], EmptyMap, now)
    /\ Returned(t, EmptyMap)
    /\ UNCHANGED << now, today, config, chart_data, snap_lock, serving,
                    next_tick, key, invoked, clone, last_written, last_good,
                    op, written, arg, res >>

\* Ok(output) with a non-zero exit status
ProcExitNonZero(t) ==
    /\ pc[t] = "exec"
    /\ outcome' = [ outcome EXCEPT ![t] = "exit_nonzero" ]
    /\ Returned(t, EmptyMap)
    /\ UNCHANGED << now, today, config, cache, chart_data, snap_lock, serving,
                    next_tick, key, invoked, clone, last_written, last_good,
                    op, written, arg, res >>

\* Ok(output), status success, serde_json::from_str fails
ProcMalformed(t) ==
    /\ pc[t] = "exec"
    /\ outcome' = [ outcome EXCEPT ![t] = "malformed" ]
    /\ Returned(t, EmptyMap)
    /\ UNCHANGED << now, today, config, cache, chart_data, snap_lock, serving,
                    next_tick, key, invoked, clone, last_written, last_good,
                    op, written, arg, res >>

\* Ok(output), status success, the document decodes: aggregate, cache.set,
\* and return to the caller
ProcSuccess(t) ==
    /\ pc[t] = "exec"
    /\ \E resources \in Documents :
          LET data_map == process_resources(resources, config.currency_rate)
          IN  /\ cache' = set(cache, key[t], data_map, now)
              /\ Returned(t, data_map)
    /\ outcome' = [ outcome EXCEPT ![t] = "ok" ]
    /\ UNCHANGED << now, today, config, chart_data, snap_lock, serving,
                    next_tick, key, invoked, clone, last_written, last_good,
                    op, written, arg, res >>

(***************************************************************************)
(* main.rs: the startup fetch and the construction of AppState              *)
(***************************************************************************)
MainFetch ==
    /\ pc[MainTask] = "start"
    /\ fetch_data(MainTask, Some(FormatYm01(today)), Some(FormatYmd(today)))
    /\ UNCHANGED << now, today, config, chart_data, snap_lock, serving, next_tick,
                    clone, last_written, last_good, op, written, arg, res >>

Finished(t) == outcome[t] \notin Failures

\* Arc::new(RwLock::new(chart_data)); Server::start spawns the background
\* task, whose interval fires its first tick at once
MainServe ==
    /\ pc[MainTask] = "write"
    /\ chart_data' = new_chart[MainTask]
    /\ serving' = TRUE
    /\ next_tick' = now
    /\ pc' = [ pc EXCEPT ![MainTask] = "done", ![BgTask] = "idle" ]
    /\ last_written' = new_chart[MainTask]
    /\ last_good' = IF Finished(MainTask) THEN Some(new_chart[MainTask]) ELSE last_good
    /\ key' = [ key EXCEPT ![MainTask] = << >> ]
    /\ data' = [ data EXCEPT ![MainTask] = EmptyMap ]
    /\ outcome' = [ outcome EXCEPT ![MainTask] = "none" ]
    /\ new_chart' = [ new_chart EXCEPT ![MainTask] = EmptyChart ]
    /\ invoked' = invoked \ {MainTask}
    /\ UNCHANGED << now, today, config, cache, snap_lock, clone, op, written, arg, res >>

(***************************************************************************)
(* server.rs: start_background_refresh; handlers.rs: refresh_data           *)
(***************************************************************************)
\* a background loop that starts a cycle at every tick of the interval,
\* whether or not the fetch of the cycle before has returned
BgTickSpawning ==
    /\ serving
    /\ pc[BgTask] \in { "idle", "exec" }
    /\ now >= next_tick
    /\ next_tick' = next_tick + config.refresh_interval
    /\ fetch_data(BgTask, None, None)
    /\ UNCHANGED << now, today, config, chart_data, snap_lock, serving,
                    clone, last_written, last_good, op, written, arg, res >>

\* a background cycle that takes the snapshot write guard before it fetches
BgTickLocked ==
    /\ serving
    /\ pc[BgTask] = "idle"
    /\ now >= next_tick
    /\ CanWrite(snap_lock)
    /\ snap_lock' = [ snap_lock EXCEPT !.writer = Some(BgTask) ]
    /\ next_tick' = next_tick + config.refresh_interval
    /\ fetch_data(BgTask, None, None)
    /\ UNCHANGED << now, today, config, chart_data, serving,
                    clone, last_written, last_good, op, written, arg, res >>

\* interval.tick().await returns; fetch_data(None, None)
BgTick ==
    /\ serving
    /\ pc[BgTask] = "idle"
    /\ now >= next_tick
    /\ next_tick' = next_tick + config.refresh_interval
    /\ fetch_data(BgTask, None, None)
    /\ UNCHANGED << now, today, config, chart_data, snap_lock, serving,
                    clone, last_written, last_good, op, written, arg, res >>

\* a refresh_data that takes the snapshot write guard before it fetches
refresh_data_locked(t) ==
    /\ serving
    /\ pc[t] = "idle"
    /\ CanWrite(snap_lock)
    /\ snap_lock' = [ snap_lock EXCEPT !.writer = Some(t) ]
    /\ \E begin_at \in BeginInputs, end_at \in EndInputs : fetch_data(t, begin_at, end_at)
    /\ UNCHANGED << now, today, config, chart_data, serving, next_tick,
                    clone, last_written, last_good, op, written, arg, res >>

\* GET /api/refresh?begin_at=&end_at=
refresh_data(t) ==
    /\ serving
    /\ pc[t] = "idle"
    /\ \E begin_at \in BeginInputs, end_at \in EndInputs : fetch_data(t, begin_at, end_at)
    /\ UNCHANGED << now, today, config, chart_data, snap_lock, serving, next_tick,
                    clone, last_written, last_good, op, written, arg, res >>

\* chart_data.write().await is granted; the assignment starts
WriteLock(t) ==
    /\ t # MainTask
    /\ pc[t] = "write"
    /\ CanWrite(snap_lock)
    /\ snap_lock' = [ snap_lock EXCEPT !.writer = Some(t) ]
    /\ chart_data' = AssignFirst(chart_data, new_chart[t])
    /\ pc' = [ pc EXCEPT ![t] = "assign" ]
    /\ UNCHANGED << now, today, config, cache, serving, next_tick, key, data,
                    outcome, invoked, new_chart, clone, last_written, last_good,
                    op, written, arg, res >>

\* the assignment ends and the write guard is dropped; the cycle is over
WriteDone(t) ==
    /\ pc[t] = "assign"
    /\ chart_data' = AssignRest(chart_data, new_chart[t])
    /\ snap_lock' = [ snap_lock EXCEPT !.writer = None ]
    /\ last_written' = new_chart[t]
    /\ last_good' = IF Finished(t) THEN Some(new_chart[t]) ELSE last_good
    /\ pc' = [ pc EXCEPT ![t] = "idle" ]
    /\ key' = [ key EXCEPT ![t] = << >> ]
    /\ data' = [ data EXCEPT ![t] = EmptyMap ]
    /\ outcome' = [ outcome EXCEPT ![t] = "none" ]
    /\ new_chart' = [ new_chart EXCEPT ![t] = EmptyChart ]
    /\ invoked' = invoked \ {t}
    /\ UNCHANGED << now, today, config, cache, serving, next_tick, clone, op, written,
                    arg, res >>

(***************************************************************************)
(* handlers.rs: get_chart_data                                              *)
(***************************************************************************)
\* chart_data.read().await is granted; data.clone() starts
ReadLock(r) ==
    /\ serving
    /\ pc[r] = "idle"
    /\ CanRead(snap_lock)
    /\ snap_lock' = [ snap_lock EXCEPT !.readers = @ \cup {r} ]
    /\ clone' = [ clone EXCEPT ![r] = AssignFirst(EmptyChart, chart_data) ]
    /\ pc' = [ pc EXCEPT ![r] = "reading" ]
    /\ UNCHANGED << now, today, config, cache, chart_data, serving, next_tick, key,
                    data, outcome, invoked, new_chart, last_written, last_good,
                    op, written, arg, res >>

\* the clone ends and the read guard is dropped
ReadDone(r) ==
    /\ pc[r] = "reading"
    /\ clone' = [ clone EXCEPT ![r] = AssignRest(clone[r], chart_data) ]
    /\ snap_lock' = [ snap_lock EXCEPT !.readers = @ \ {r} ]
    /\ pc' = [ pc EXCEPT ![r] = "read" ]
    /\ UNCHANGED << now, today, config, cache, chart_data, serving, next_tick, key,
                    data, outcome, invoked, new_chart, last_written, last_good,
                    op, written, arg, res >>

\* Json(clone) is sent
ReadReturn(r) ==
    /\ pc[r] = "read"
    /\ clone' = [ clone EXCEPT ![r] = EmptyChart ]
    /\ pc' = [ pc EXCEPT ![r] = "idle" ]
    /\ UNCHANGED << now, today, config, cache, chart_data, snap_lock, serving,
                    next_tick, key, data, outcome, invoked, new_chart,
                    last_written, last_good, op, written, arg, res >>

\* time passes
Tick ==
    /\ now < MaxTicks * TickStep
    /\ now' = now + TickStep
    /\ UNCHANGED << today, config, cache, chart_data, snap_lock, serving, next_tick,
                    pc, key, data, outcome, invoked, new_chart, clone,
                    last_written, last_good, op, written, arg, res >>

\* The program over time: startup, the periodic refresh, one client
\* refreshing, and the clock
Next ==
    \/ MainFetch
    \/ MainServe
    \/ BgTick
    \/ \E t \in { "m1" } : refresh_data(t)
    \/ \E t \in Fetchers : ProcLaunchFailed(t)
    \/ \E t \in Fetchers : ProcExitNonZero(t)
    \/ \E t \in Fetchers : ProcMalformed(t)
    \/ \E t \in Fetchers : ProcSuccess(t)
    \/ \E t \in Fetchers : WriteLock(t)
    \/ \E t \in Fetchers : WriteDone(t)
    \/ Tick

Spec == Init /\ [][Next]_vars

\* The program within one clock reading: startup, the periodic refresh, two
\* clients refreshing at once and a client reading the snapshot
NextRace ==
    \/ MainFetch
    \/ MainServe
    \/ BgTick
    \/ \E t \in ManualTasks : refresh_data(t)
    \/ \E t \in Fetchers : ProcLaunchFailed(t)
    \/ \E t \in Fetchers : ProcExitNonZero(t)
    \/ \E t \in Fetchers : ProcMalformed(t)
    \/ \E t \in Fetchers : ProcSuccess(t)
    \/ \E t \in Fetchers : WriteLock(t)
    \/ \E t \in Fetchers : WriteDone(t)
    \/ \E r \in Readers : ReadLock(r)
    \/ \E r \in Readers : ReadDone(r)
    \/ \E r \in Readers : ReadReturn(r)

SpecRace == Init /\ [][NextRace]_vars

(***************************************************************************)
(* cache.rs driven through its public API: any caller, any call order       *)
(***************************************************************************)
\* the keys fetch_data can produce from the requests above
CacheKeys ==
    { generate_key(cfg.openstack_command, BuildArgs(cfg, b, e, d)) :
        cfg \in Configs, b \in BeginInputs, e \in EndInputs, d \in Days }

\* the summaries fetch_data can store
Summaries == { process_resources(doc, cfg.currency_rate) : doc \in Documents, cfg \in Configs }

\* the durations a caller passes to set_with_ttl
Ttls == { 0, DefaultTtl, 2 * DefaultTtl }

\* old is what HashMap::insert returns: the entry the key held before
Call(name, k, value, ttl, old, ret) ==
    [ name |-> name, key |-> k, value |-> value, ttl |-> ttl, old |-> old, ret |-> ret ]

Held(c, k) == IF k \in DOMAIN c THEN Some(c[k]) ELSE None

Remember(w, k, d, ttl, t) ==
    [ x \in DOMAIN w \cup {k} |-> IF x = k THEN [ data |-> d, at |-> t, ttl |-> ttl ] ELSE w[x] ]

ApiGet(k) ==
    LET got == get(cache, k, now)
    IN  /\ cache' = got.cache
        /\ op' = Call("get", k, None, None, None, got.ret)
        /\ UNCHANGED << now, today, config, chart_data, snap_lock, serving, next_tick,
                        pc, key, data, outcome, invoked, new_chart, clone,
                        last_written, last_good, written, arg, res >>

ApiSet(k, d) ==
    /\ cache' = set(cache, k, d, now)
    /\ op' = Call("set", k, Some(d), None, Held(cache, k), None)
    /\ written' = Remember(written, k, d, DefaultTtl, now)
    /\ UNCHANGED << now, today, config, chart_data, snap_lock, serving, next_tick,
                    pc, key, data, outcome, invoked, new_chart, clone,
                    last_written, last_good, arg, res >>

ApiSetWithTtl(k, d, ttl) ==
    /\ cache' = set_with_ttl(cache, k, d, ttl, now)
    /\ op' = Call("set_with_ttl", k, Some(d), Some(ttl), Held(cache, k), None)
    /\ written' = Remember(written, k, d, ttl, now)
    /\ UNCHANGED << now, today, config, chart_data, snap_lock, serving, next_tick,
                    pc, key, data, outcome, invoked, new_chart, clone,
                    last_written, last_good, arg, res >>

ApiCleanupExpired ==
    /\ cache' = cleanup_expired(cache, now)
    /\ op' = Call("cleanup_expired", << >>, None, None, None, None)
    /\ UNCHANGED << now, today, config, chart_data, snap_lock, serving, next_tick,
                    pc, key, data, outcome, invoked, new_chart, clone,
                    last_written, last_good, written, arg, res >>

ApiClear ==
    /\ cache' = clear(cache)
    /\ op' = Call("clear", << >>, None, None, None, None)
    /\ written' = << >>
    /\ UNCHANGED << now, today, config, chart_data, snap_lock, serving, next_tick,
                    pc, key, data, outcome, invoked, new_chart, clone,
                    last_written, last_good, arg, res >>

ApiStats ==
    /\ op' = Call("stats", << >>, None, None, None, Some(stats(cache, now)))
    /\ UNCHANGED << now, today, config, cache, chart_data, snap_lock, serving,
                    next_tick, pc, key, data, outcome, invoked, new_chart, clone,
                    last_written, last_good, written, arg, res >>

NextCache ==
    \/ \E k \in CacheKeys : ApiGet(k)
    \/ \E k \in CacheKeys, d \in Summaries : ApiSet(k, d)
    \/ \E k \in CacheKeys, d \in Summaries, ttl \in Ttls : ApiSetWithTtl(k, d, ttl)
    \/ ApiCleanupExpired
    \/ ApiClear
    \/ ApiStats
    \/ Tick

SpecCache == Init /\ [][NextCache]_vars

(***************************************************************************)
(* The functions of cache.rs and data.rs applied to inputs of their own:    *)
(* arg is the call, res the value it returned                               *)
(***************************************************************************)
prog_vars == << now, today, config, cache, chart_data, snap_lock, serving, next_tick,
                pc, key, data, outcome, invoked, new_chart, clone, last_written,
                last_good, op, written >>

\* a call of function fn that has not run yet
Pending(fn) == arg.fn = fn /\ res = None

\* the characters argument strings are made of: here a String is its chars
Alphabet == { "a", "b" }

Strs == UNION { [ 1..n -> Alphabet ] : n \in 1..MaxStrLen }

ParamLists == UNION { [ 1..n -> Strs ] : n \in 0..MaxParams }

\* generate_key's arguments: command: &str, params: &[&str]
Descriptors == [ command : { << "o", "s" >> }, params : ParamLists ]

\* the tables a cache instance can hold when generate_key is called on it
Instances ==
    { << >> } \cup { set(<< >>, k, d, 0) : k \in CacheKeys, d \in Summaries \ { EmptyMap } }

\* a generate_key that mixes the size of the table into the hash
generate_key_salted(self, command, params) ==
    << Cardinality(DOMAIN self) >> \o generate_key(command, params)

\* OpenStackCache::generate_key(&self, command, params): self is the table
\* of the instance it is called on, which the body never reads
generate_key_self(self, command, params) == generate_key(command, params)

KeyPairInputs == [ fn : { "generate_key_pair" }, d1 : Descriptors, d2 : Descriptors ]

\* generate_key on two descriptors
CallGenerateKeyPair ==
    /\ Pending("generate_key_pair")
    /\ res' = Some(<< generate_key(arg.d1.command, arg.d1.params),
                      generate_key(arg.d2.command, arg.d2.params) >>)
    /\ UNCHANGED << prog_vars, arg >>

InitKeys == InitProgram /\ arg \in KeyPairInputs /\ res = None

NextKeys == CallGenerateKeyPair

SpecKeys == InitKeys /\ [][NextKeys]_vars

KeyInputs == [ fn : { "generate_key" }, d : Descriptors, c1 : Instances, c2 : Instances ]

\* generate_key on one descriptor, called on two cache instances
CallGenerateKey ==
    /\ Pending("generate_key")
    /\ res' = Some(<< generate_key_self(arg.c1, arg.d.command, arg.d.params),
                      generate_key_self(arg.c2, arg.d.command, arg.d.params) >>)
    /\ UNCHANGED << prog_vars, arg >>

SensitiveFlags == { S("--os-password"), S("--os-project-id") }

\* the while loop of redact_sensitive_args from index i on
RECURSIVE RedactFrom(_, _)
RedactFrom(args, i) ==
    IF i > Len(args) THEN << >>
    ELSE IF args[i] \in SensitiveFlags
         THEN IF i + 1 <= Len(args)
              THEN << args[i], S("[REDACTED]") >> \o RedactFrom(args, i + 2)
              ELSE << args[i] >> \o RedactFrom(args, i + 1)
         ELSE << args[i] >> \o RedactFrom(args, i + 1)

\* DataService::redact_sensitive_args
redact_sensitive_args(args) == RedactFrom(args, 1)

\* argument lists: the two credential flags and a secret value in any order,
\* and the list fetch_data logs
ArgLists ==
    UNION { [ 1..n -> SensitiveFlags \cup { S("hunter2") } ] : n \in 0..MaxArgs }
    \cup { BuildArgs(cfg, None, None, d) : cfg \in Configs, d \in Days }

RedactInputs == [ fn : { "redact_sensitive_args" }, args : ArgLists ]

CallRedact ==
    /\ Pending("redact_sensitive_args")
    /\ res' = Some(redact_sensitive_args(arg.args))
    /\ UNCHANGED << prog_vars, arg >>

\* the days Local::now() can fall on when fetch_data builds its arguments
CallDays == Days \cup { [ year |-> 2024, month |-> 10, day |-> 2 ] }

\* begin_at / end_at as a caller can pass them: absent, padded, unpadded,
\* not in the format, and in the format with a month that does not exist
DateArgs ==
    { None,
      Some(<< "2024", "-", "03", "-", "10" >>),
      Some(<< "2024", "-", "3", "-", "2" >>),
      Some(<< "10", "/", "03", "/", "2024" >>),
      Some(<< "2024", "-", "15", "-", "01" >>) }

DateInputs ==
    [ fn : { "fetch_data_args" }, cfg : Configs, begin_at : DateArgs, end_at : DateArgs,
      day : CallDays ]

\* the argument list fetch_data builds for begin_at and end_at
CallBuildArgs ==
    /\ Pending("fetch_data_args")
    /\ res' = Some(BuildArgs(arg.cfg, arg.begin_at, arg.end_at, arg.day))
    /\ UNCHANGED << prog_vars, arg >>

\* the records a document can hold: a rating that parses or not, a service
Records == [ rating : { S("2"), S("4"), S("n/a") }, service : { S("compute"), S("storage") } ]

Wrappers == UNION { [ 1..n -> Records ] : n \in 0..MaxRecords }

\* decoded documents of at most two wrappers
Docs == UNION { [ 1..n -> Wrappers ] : n \in 0..2 }

ResourceInputs == [ fn : { "process_resources" }, resources : Docs, currency_rate : { 2 } ]

CallProcessResources ==
    /\ Pending("process_resources")
    /\ res' = Some(process_resources(arg.resources, arg.currency_rate))
    /\ UNCHANGED << prog_vars, arg >>

\* summaries of up to three services, with costs that can tie
SummaryMaps ==
    UNION { [ sv -> { 3, 6, 9 } ] : sv \in SUBSET { S("a"), S("b"), S("c") } }

\* process_data on two equal summaries, each map iterating in an order of
\* its own
ChartInputs ==
    UNION { [ fn : { "process_data" }, d : { d }, order1 : IterOrders(d),
              order2 : IterOrders(d) ] : d \in SummaryMaps }

CallProcessData ==
    /\ Pending("process_data")
    /\ res' = Some(<< process_data(arg.d, arg.order1, now),
                      process_data(arg.d, arg.order2, now) >>)
    /\ UNCHANGED << prog_vars, arg >>

InitPure ==
    /\ InitProgram
    /\ \/ arg \in KeyInputs
       \/ arg \in RedactInputs
       \/ arg \in DateInputs
       \/ arg \in ResourceInputs
       \/ arg \in ChartInputs
    /\ res = None

NextPure ==
    \/ CallGenerateKey
    \/ CallRedact
    \/ CallBuildArgs
    \/ CallProcessResources
    \/ CallProcessData

SpecPure == InitPure /\ [][NextPure]_vars

(***************************************************************************)
(* Properties                                                               *)
(***************************************************************************)
IsFetchStart(t) == pc[t] \in { "start", "idle" } /\ pc'[t] \in { "exec", "write" }

\* C1: once some refresh has ended without a failure, the snapshot at rest
\* is the one that refresh (or a later one that did not fail) produced: a
\* refresh whose fetch failed leaves the snapshot as it was.
C1_FailedRefreshKeepsSnapshot ==
    (serving /\ snap_lock.writer = None /\ last_good # None)
        => chart_data = last_good[1]

\* C2: a fetch_data call that ends in a failure has launched the external
\* process, and the step in which it fails leaves the cache table unchanged.
C2_FailedFetchNotCached ==
    /\ [](\A t \in Fetchers : outcome[t] \in Failures => t \in invoked)
    /\ [][ \A t \in Fetchers :
             (outcome[t] = "running" /\ outcome'[t] \in Failures) => cache' = cache ]_vars

\* the startup fetch failed, the periodic refresh asked for the same key and
\* failed as well after launching the process, and the cache is still empty
C2_Witness ==
    /\ serving
    /\ last_good = None
    /\ outcome[BgTask] \in Failures
    /\ BgTask \in invoked
    /\ key[BgTask] = generate_key(config.openstack_command,
                                  BuildArgs(config, Some(FormatYm01(today)),
                                            Some(FormatYmd(today)), today))
    /\ cache = << >>

\* C3 as stated: no two tasks have the external process in flight for the
\* same key.
C3_AtMostOneFetchPerKey ==
    \A t1, t2 \in Fetchers :
        (t1 # t2 /\ pc[t1] = "exec" /\ pc[t2] = "exec") => key[t1] # key[t2]

\* C3 as amended: a task launches the external process for a key only when
\* its own cache read found no valid entry under that key, and a task with the
\* process in flight has launched it once, for the key it read.
C3_FetchOnlyAfterMiss ==
    /\ [](\A t \in Fetchers : pc[t] = "exec" => (t \in invoked /\ outcome[t] = "running"))
    /\ [][ \A t \in Fetchers :
             (t \in invoked' /\ t \notin invoked)
             => (/\ IsFetchStart(t)
                 /\ ~(key'[t] \in DOMAIN cache /\ is_valid(cache[key'[t]], now))) ]_vars

\* a client and the periodic refresh both missed on one key, whose entry had
\* expired, and each has the process in flight for it
C3_Witness ==
    /\ pc["m1"] = "exec"
    /\ pc[BgTask] = "exec"
    /\ key["m1"] = key[BgTask]
    /\ { "m1", BgTask } \subseteq invoked
    /\ key["m1"] \in DOMAIN cache
    /\ ~is_valid(cache[key["m1"]], now)

Whole(c) ==
    /\ Len(c.labels) = c.service_count
    /\ Len(c.values) = c.service_count
    /\ c.total_cost = Sum(c.values)
    /\ \E d \in Summaries \cup { EmptyMap } : \E order \in IterOrders(d), t \in Times :
          c = process_data(d, order, t)

\* C4: every snapshot a reader has cloned is one process_data result, whole:
\* labels, values and service_count agree in length and total_cost is the sum
\* of its values.
C4_ReaderSeesWholeSnapshot ==
    \A r \in Readers : pc[r] = "read" => Whole(clone[r])

\* a reader holds a non-empty snapshot while three refreshes are under way
C4_Witness ==
    /\ pc["r1"] = "read"
    /\ clone["r1"].service_count = 2
    /\ pc["m1"] = "write"
    /\ pc["m2"] = "exec"
    /\ pc[BgTask] = "write"
    /\ new_chart["m1"] # clone["r1"]

\* C5: whenever no refresh holds the snapshot write lock, the snapshot is the
\* ChartData of the refresh that held the lock last.
C5_LastWriterWins ==
    (serving /\ snap_lock.writer = None) => chart_data = last_written

\* one refresh has just replaced the snapshot while two others, which
\* computed something else, still wait for the lock
C5_Witness ==
    /\ serving
    /\ snap_lock.writer = None
    /\ pc[BgTask] = "idle"
    /\ pc["m1"] = "write"
    /\ pc["m2"] = "write"
    /\ chart_data = last_written
    /\ chart_data.service_count = 2
    /\ new_chart["m1"].service_count = 0
    /\ new_chart["m2"].service_count = 0
    /\ key["m1"] # key["m2"]

\* C6: a fetch_data call that finds a valid entry under its key returns that
\* entry's data, does not launch the external process and leaves the cache
\* table unchanged.
C6_CacheHitShortCircuits ==
    [][ \A t \in Fetchers :
          (/\ IsFetchStart(t)
           /\ key'[t] \in DOMAIN cache
           /\ is_valid(cache[key'[t]], now))
          => (/\ pc'[t] = "write"
              /\ data'[t] = cache[key'[t]].data
              /\ outcome'[t] = "hit"
              /\ t \notin invoked'
              /\ cache' = cache) ]_vars

C6_Witness ==
    \E t \in Fetchers :
        /\ outcome[t] = "hit"
        /\ t \notin invoked
        /\ data[t] # EmptyMap
        /\ key[t] \in DOMAIN cache
        /\ cache[key[t]].data = data[t]

\* C7: a get of a key whose last set is younger than the TTL of that set,
\* with no clear since, returns the value that was set.
C7_SetThenGetWithinTtl ==
    (/\ op.name = "get"
     /\ op.key \in DOMAIN written
     /\ now - written[op.key].at < written[op.key].ttl)
    => op.ret = Some(written[op.key].data)

\* a value set one clock step ago, with a TTL of two steps, is read back
C7_Witness ==
    /\ op.name = "get"
    /\ op.key \in DOMAIN written
    /\ now - written[op.key].at > 0
    /\ now - written[op.key].at < written[op.key].ttl
    /\ op.ret # None
    /\ op.ret[1] # EmptyMap

\* C8: a get of a key whose entry has expired returns None and leaves the
\* table as it was, so stats still counts the entry in total and in expired;
\* and no get, no stats and no passing of time removes an entry.
C8_ExpiredGetKeepsEntry ==
    /\ [][ (op'.name \in { "get", "stats" } \/ now' # now) => cache' = cache ]_vars
    /\ [][ (/\ op'.name = "get"
            /\ now' = now
            /\ op'.key \in DOMAIN cache
            /\ ~is_valid(cache[op'.key], now))
           => (/\ op'.ret = None
               /\ cache' = cache
               /\ stats(cache', now').total_entries = stats(cache, now).total_entries
               /\ stats(cache', now').expired_entries = stats(cache, now).expired_entries
               /\ stats(cache', now').expired_entries >= 1) ]_vars

C8_Witness ==
    /\ op.name = "get"
    /\ op.ret = None
    /\ op.key \in DOMAIN cache
    /\ cache[op.key].ttl > 0
    /\ ~is_valid(cache[op.key], now)
    /\ stats(cache, now).expired_entries >= 1

\* C9: cleanup_expired keeps every valid entry as it is and removes every
\* other entry, and a second call at once changes nothing.
C9_CleanupRemovesExactlyExpired ==
    [][ (op'.name = "cleanup_expired" /\ now' = now)
        => (/\ DOMAIN cache' \subseteq DOMAIN cache
            /\ \A k \in DOMAIN cache :
                  IF is_valid(cache[k], now)
                  THEN k \in DOMAIN cache' /\ cache'[k] = cache[k]
                  ELSE k \notin DOMAIN cache'
            /\ cleanup_expired(cache', now') = cache') ]_vars

\* a cleanup has removed one of the two keys that were set and kept the other
C9_Witness ==
    /\ op.name = "cleanup_expired"
    /\ Cardinality(DOMAIN cache) = 1
    /\ Cardinality(DOMAIN written) = 2

\* C10: after set / set_with_ttl the key holds exactly the new data, created
\* now, with the TTL of this call; every other key is as before.
C10_SetOverwrites ==
    [][ (op'.name \in { "set", "set_with_ttl" } /\ now' = now)
        => (/\ DOMAIN cache' = DOMAIN cache \cup { op'.key }
            /\ cache'[op'.key] =
                 [ data       |-> op'.value[1],
                   created_at |-> now,
                   ttl        |-> IF op'.name = "set" THEN DefaultTtl ELSE op'.ttl[1] ]
            /\ \A x \in DOMAIN cache \ { op'.key } : cache'[x] = cache[x]) ]_vars

\* set has replaced a still valid entry that had other data and a longer TTL
C10_Witness ==
    /\ op.name = "set"
    /\ op.old # None
    /\ is_valid(op.old[1], now)
    /\ op.old[1].ttl > DefaultTtl
    /\ op.old[1].data # op.value[1]
    /\ cache[op.key] = CacheEntry(op.value[1], DefaultTtl, now)

\* q holds the arguments of p in another order
Reordered(p, q) ==
    /\ Len(p) = Len(q)
    /\ p # q
    /\ \E f \in [ 1..Len(p) -> 1..Len(p) ] :
          /\ \A i, j \in 1..Len(p) : i # j => f[i] # f[j]
          /\ q = [ i \in 1..Len(p) |-> p[f[i]] ]

\* p and q differ in exactly one argument
DifferInOneArgument(p, q) ==
    /\ Len(p) = Len(q)
    /\ Cardinality({ i \in 1..Len(p) : p[i] # q[i] }) = 1

\* C11: two descriptors (command and ordered parameter list) that differ in
\* a single argument, or in the order of their arguments, get different keys
\* from generate_key.
C11_DistinctDescriptorsDistinctKeys ==
    (/\ arg.fn = "generate_key_pair"
     /\ res # None
     /\ arg.d1.command = arg.d2.command
     /\ \/ DifferInOneArgument(arg.d1.params, arg.d2.params)
        \/ Reordered(arg.d1.params, arg.d2.params))
        => res[1][1] # res[1][2]

C13_FailuresAbsorbed ==
    \A t \in Fetchers :
        outcome[t] \in Failures
        => /\ data[t] = EmptyMap
           /\ pc[t] \in { "write", "assign" }
           /\ [ new_chart[t] EXCEPT !.last_updated = << >> ] = EmptyChart
           /\ new_chart[t].last_updated \in { << n >> : n \in Times }

\* the periodic refresh and two clients each failed in a different way, and
\* each holds an empty snapshot to write
C13_Witness ==
    /\ outcome[BgTask] = "launch_failed"
    /\ outcome["m1"] = "exit_nonzero"
    /\ outcome["m2"] = "malformed"
    /\ \A t \in { BgTask, "m1", "m2" } :
          /\ pc[t] = "write"
          /\ data[t] = EmptyMap
          /\ new_chart[t].service_count = 0
          /\ new_chart[t].last_updated # << >>

\* C14: every entry fetch_data has stored carries the TTL the configuration
\* gives in cache_ttl_seconds.
C14_EntryCarriesConfiguredTtl ==
    \A k \in DOMAIN cache : cache[k].ttl = config.cache_ttl_seconds

\* C15: a fetch_data call whose process succeeded with an empty document (of
\* Documents, the only one that aggregates to the empty summary) leaves the
\* cache table unchanged.
C15_EmptyDocumentNotCached ==
    [][ \A t \in Fetchers :
          (outcome[t] = "running" /\ outcome'[t] = "ok" /\ data'[t] = EmptyMap)
          => cache' = cache ]_vars

\* C16: in the output of redact_sensitive_args, every argument that follows
\* "--os-password" or "--os-project-id" in the input is "[REDACTED]", the
\* output is as long as the input, and every other position is unchanged.
C16_RedactsEveryFollower ==
    (arg.fn = "redact_sensitive_args" /\ res # None)
        => /\ Len(res[1]) = Len(arg.args)
           /\ \A i \in 1..Len(arg.args) :
                 res[1][i] = IF i > 1 /\ arg.args[i - 1] \in SensitiveFlags
                             THEN S("[REDACTED]") ELSE arg.args[i]

\* the argument that follows flag in args
ArgAfter(args, flag) ==
    args[(CHOOSE i \in 1..Len(args) : args[i] = flag) + 1]

\* the first day of the month of day, at midnight UTC, written out
FirstOfMonthText(day) ==
    << "2024", "-", IF day.month = 3 THEN "03" ELSE "10", "-", "01", "T00:00:00+00:00" >>

\* day at midnight UTC, written out
TodayText(day) ==
    << "2024", "-", IF day.month = 3 THEN "03" ELSE "10", "-",
       IF day.day = 15 THEN "15" ELSE "02", "T00:00:00+00:00" >>

\* the explicit dates of DateArgs that are valid, and their RFC 3339 text
ValidDateText ==
    << "2024", "-", "03", "-", "10" >> :> << "2024", "-", "03", "-", "10", "T00:00:00+00:00" >>
    @@ << "2024", "-", "3", "-", "2" >> :> << "2024", "-", "03", "-", "02", "T00:00:00+00:00" >>

\* what the claim gives for the bound x when default stands for an absent one
ExpectedBound(x, default, day) ==
    IF x = None THEN default
    ELSE IF x[1] \in DOMAIN ValidDateText THEN ValidDateText[x[1]]
    ELSE FirstOfMonthText(day)

Numeric(r) == r.rating \in { S(x) : x \in DOMAIN ParseF64 }

\* the sum of rating / currency_rate over the records of service whose rating
\* is a number
RECURSIVE CostOf(_, _, _)
CostOf(records, service, currency_rate) ==
    IF records = << >> THEN 0
    ELSE (IF Head(records).service = service /\ Numeric(Head(records))
          THEN ParseF64[Head(records).rating[1]] \div currency_rate ELSE 0)
         + CostOf(Tail(records), service, currency_rate)

\* C18: the map process_resources returns has as keys exactly the services
\* with at least one record whose rating is a number, each with the sum of
\* rating / currency_rate over those records; the other records add nothing
\* and stop nothing.
C18_Aggregation ==
    (arg.fn = "process_resources" /\ res # None)
        => LET records == Flatten(arg.resources)
           IN  /\ DOMAIN res[1]
                    = { records[i].service :
                          i \in { j \in 1..Len(records) : Numeric(records[j]) } }
               /\ \A sv \in DOMAIN res[1] :
                     res[1][sv] = CostOf(records, sv, arg.currency_rate)

\* a rating that is not a number comes first, two wrappers add to compute,
\* and storage, with no number at all, is not in the map
C18_Witness ==
    /\ arg.fn = "process_resources"
    /\ arg.resources
         = << << Resource(S("n/a"), S("compute")), Resource(S("4"), S("compute")) >>,
              << Resource(S("2"), S("compute")), Resource(S("n/a"), S("storage")) >> >>
    /\ res = Some(S("compute") :> 3)

RECURSIVE SumOver(_, _)
SumOver(d, sv) ==
    IF sv = {} THEN 0
    ELSE LET x == CHOOSE y \in sv : TRUE IN d[x] + SumOver(d, sv \ {x})

\* chart c is the snapshot the claim derives from summary d
DerivedFrom(c, d) ==
    LET n == Cardinality(DOMAIN d)
    IN  /\ Len(c.labels) = n
        /\ Len(c.values) = n
        /\ { c.labels[i] : i \in 1..n } = DOMAIN d
        /\ \A i \in 1..n : c.values[i] = d[c.labels[i]]
        /\ \A i, j \in 1..n : i < j => c.values[i] >= c.values[j]
        /\ c.total_cost = SumOver(d, DOMAIN d)
        /\ c.service_count = n
        /\ n > 0 => /\ c.average_cost * n <= c.total_cost
                    /\ c.total_cost < (c.average_cost + 1) * n

\* C19: the labels and values process_data returns are a permutation of the
\* summary's entries, values non-increasing, labels[i] paired with values[i];
\* total_cost is the sum of the values, service_count the number of entries,
\* average_cost the quotient of the two.
C19_SnapshotDerivation ==
    (arg.fn = "process_data" /\ res # None)
        => DerivedFrom(res[1][1], arg.d) /\ DerivedFrom(res[1][2], arg.d)

\* {a: 3, b: 9, c: 6} gives labels [b, c, a], values [9, 6, 3], total 18,
\* count 3, average 6
C19_Witness ==
    /\ arg.fn = "process_data"
    /\ arg.d = (S("a") :> 3 @@ S("b") :> 9 @@ S("c") :> 6)
    /\ res # None
    /\ res[1][1].labels = << S("b"), S("c"), S("a") >>
    /\ res[1][1].values = << 9, 6, 3 >>
    /\ res[1][1].total_cost = 18
    /\ res[1][1].service_count = 3
    /\ res[1][1].average_cost = 6

\* C20: process_data applied twice to equal summaries in which two or more
\* services have the same cost returns the labels in the same order both
\* times.
C20_SameOrderOnTies ==
    (/\ arg.fn = "process_data"
     /\ res # None
     /\ \E s1, s2 \in DOMAIN arg.d : s1 # s2 /\ arg.d[s1] = arg.d[s2])
        => res[1][1].labels = res[1][2].labels

\* task t holds a guard of the snapshot lock
HoldsSnapshot(t) == snap_lock.writer = Some(t) \/ t \in snap_lock.readers

\* a step in which task t calls a cache method, and so takes and drops the
\* cache lock: the get at the start of fetch_data, the set after a success
UsesCache(t) ==
    \/ IsFetchStart(t)
    \/ outcome[t] = "running" /\ outcome'[t] = "ok"

\* C21: a task holds the snapshot lock only while it assigns or clones the
\* snapshot; no step that takes the cache lock is made by a task that holds
\* the snapshot lock before or after it, and the cache changes in no other
\* step; and whenever a task waits for the snapshot lock, the lock can be
\* granted or its holder can release it: no deadlock on the two locks.
C21_LockDiscipline ==
    /\ [](\A t \in Fetchers : HoldsSnapshot(t) => pc[t] = "assign")
    /\ [](\A r \in Readers : HoldsSnapshot(r) => pc[r] = "reading")
    /\ [][ \A t \in Fetchers :
             UsesCache(t)
             => /\ ~HoldsSnapshot(t)
                /\ snap_lock'.writer # Some(t)
                /\ t \notin snap_lock'.readers ]_vars
    /\ [][ cache' # cache => \E t \in Fetchers : UsesCache(t) ]_vars
    /\ []((\E t \in Fetchers \ { MainTask } : pc[t] = "write")
            => \/ ENABLED (\E t \in Fetchers : WriteLock(t) \/ WriteDone(t))
               \/ ENABLED (\E r \in Readers : ReadDone(r)))
    /\ []((\E r \in Readers : serving /\ pc[r] = "idle" /\ ~CanRead(snap_lock))
            => ENABLED (\E t \in Fetchers : WriteDone(t)))

\* a reader holds the read guard while it clones, a client waits for the
\* write guard behind it, the periodic refresh has its process in flight,
\* and the cache holds an entry
C21_Witness ==
    /\ pc["r1"] = "reading"
    /\ HoldsSnapshot("r1")
    /\ pc["m1"] = "write"
    /\ ~CanWrite(snap_lock)
    /\ pc[BgTask] = "exec"
    /\ cache # << >>

\* C22: no step of a reader changes the cache or launches the external
\* process; no task holds the snapshot write guard while its fetch is in
\* flight; and while every refresh under way is still fetching (none waits
\* for or holds the write guard), a reader that asks for the snapshot gets
\* the read guard at once.
C22_ReadersNeverFetchNorWait ==
    /\ [][ (\E r \in Readers : pc'[r] # pc[r])
           => /\ cache' = cache
              /\ invoked' = invoked
              /\ outcome' = outcome ]_vars
    /\ [](\A t \in Fetchers :
            (pc[t] = "exec" \/ outcome[t] = "running") => snap_lock.writer # Some(t))
    /\ [](\A r \in Readers :
            (/\ serving
             /\ pc[r] = "idle"
             /\ \A t \in Fetchers : pc[t] \notin { "write", "assign" })
            => ENABLED ReadLock(r))

\* the periodic refresh and two clients all have their process in flight,
\* and a reader has taken its copy of the current snapshot meanwhile
C22_Witness ==
    /\ pc[BgTask] = "exec"
    /\ pc["m1"] = "exec"
    /\ pc["m2"] = "exec"
    /\ pc["r1"] = "read"
    /\ clone["r1"] = chart_data
    /\ snap_lock = Unlocked

\* chart c shows nothing: no labels, no values, total, count and average 0
ShowsNothing(c) ==
    /\ c.labels = << >>
    /\ c.values = << >>
    /\ c.total_cost = 0
    /\ c.service_count = 0
    /\ c.average_cost = 0

\* C23: from startup on, as long as no refresh whose fetch did not fail has
\* replaced the snapshot (the startup fetch failed, and so has every refresh
\* written since), the snapshot at rest shows nothing, with average_cost 0,
\* and so does every copy a reader takes of it.
C23_FailedStartupServesEmpty ==
    /\ []((serving /\ last_good = None /\ snap_lock.writer = None)
            => ShowsNothing(chart_data))
    /\ [][ \A r \in Readers :
             (pc[r] = "reading" /\ pc'[r] = "read" /\ last_good = None)
             => ShowsNothing(clone'[r]) ]_vars

\* the startup fetch failed, the periodic refresh then ran a whole cycle that
\* failed as well, nothing was ever cached, and a reader has been given the
\* snapshot that shows nothing
C23_Witness ==
    /\ serving
    /\ last_good = None
    /\ cache = << >>
    /\ pc[BgTask] = "idle"
    /\ next_tick > now
    /\ snap_lock = Unlocked
    /\ pc["r1"] = "read"
    /\ ShowsNothing(clone["r1"])
    /\ clone["r1"].last_updated # << >>

\* the argument list of the startup fetch: main passes the first of the month
\* and today, both formatted by itself
StartupArgs == BuildArgs(config, Some(FormatYm01(today)), Some(FormatYmd(today)), today)

\* the argument list of a periodic refresh: fetch_data(None, None)
PeriodicArgs == BuildArgs(config, None, None, today)

StartupKey == generate_key(config.openstack_command, StartupArgs)

\* C24: on one calendar day and one configuration the startup fetch and the
\* periodic refresh build the same argument list and the same key, and a
\* periodic refresh that starts while the entry under the startup key is
\* valid returns that entry's summary without launching the external process.
C24_PeriodicSharesStartupKey ==
    /\ [](StartupArgs = PeriodicArgs)
    /\ [](\A t \in { MainTask, BgTask } : key[t] # << >> => key[t] = StartupKey)
    /\ [][ (/\ pc[BgTask] = "idle"
            /\ pc'[BgTask] # "idle"
            /\ StartupKey \in DOMAIN cache
            /\ is_valid(cache[StartupKey], now))
           => /\ outcome'[BgTask] = "hit"
              /\ BgTask \notin invoked'
              /\ data'[BgTask] = cache[StartupKey].data ]_vars

\* the startup fetch succeeded and was served; the first periodic refresh,
\* within the TTL, was answered from the entry stored at startup
C24_Witness ==
    /\ serving
    /\ last_good # None
    /\ last_written = last_good[1]
    /\ pc["m1"] = "idle"
    /\ next_tick = RefreshInterval
    /\ outcome[BgTask] = "hit"
    /\ BgTask \notin invoked
    /\ key[BgTask] = StartupKey
    /\ StartupKey \in DOMAIN cache
    /\ cache[StartupKey].created_at = 0
    /\ data[BgTask] = cache[StartupKey].data
    /\ data[BgTask] # EmptyMap

\* C25: a periodic cycle starts only when the background task is at rest,
\* with no fetch of its own pending; the task comes to rest only by
\* finishing the write of the snapshot it built; while a periodic fetch has
\* not returned (and until its snapshot is written) no periodic cycle can
\* start, even when the interval has elapsed again.
C25_PeriodicCyclesDoNotOverlap ==
    /\ [][ (serving /\ next_tick' # next_tick)
           => /\ pc[BgTask] = "idle"
              /\ outcome[BgTask] = "none"
              /\ BgTask \notin invoked
              /\ pc'[BgTask] \in { "exec", "write" } ]_vars
    /\ [][ (pc[BgTask] \notin { "off", "idle" } /\ pc'[BgTask] = "idle")
           => /\ pc[BgTask] = "assign"
              /\ chart_data' = new_chart[BgTask] ]_vars
    /\ [](pc[BgTask] \in { "exec", "write", "assign" } => ~ENABLED BgTick)

\* the periodic fetch is still in flight when the interval has elapsed
\* again, and beside it a client's manual refresh, for another window, has
\* fetched and is writing its snapshot
C25_Witness ==
    /\ pc[BgTask] = "exec"
    /\ BgTask \in invoked
    /\ now >= next_tick
    /\ pc["m1"] = "assign"
    /\ "m1" \in invoked
    /\ key["m1"] # key[BgTask]

====
